---- MODULE Spec2Model ----
(***************************************************************************)
(* Model of the giveaway bot (src/bot.py): the GiveawayBot repository      *)
(* (codes, users, banned_users and their three JSON files) and the         *)
(* command handlers that mutate it.  One action is one whole handler:      *)
(* between two awaits a handler runs without interruption, and every       *)
(* handler below mutates and saves before its first await after the        *)
(* mutation.                                                               *)
(***************************************************************************)
EXTENDS Integers, Sequences, FiniteSets, TLC

VARIABLES
    codes,          \* bot_instance.codes: code key -> code record
    users,          \* bot_instance.users: str(user id) -> user record
    banned_users,   \* bot_instance.banned_users: list of id strings
    disk,           \* the three files CODES_FILE, USERS_FILE, BANNED_FILE
    now,            \* the clock read by datetime.now()
    faulty,         \* TRUE when the storage can make save_data raise
    lossy,          \* TRUE when Telegram can make a send raise
    tasks,          \* the handlers that are suspended at an await
    failures,       \* number of save_data calls that raised so far
    hung,           \* TRUE once gencode spins in its retry loop forever
    reply           \* what the last handler did and answered

vars == <<codes, users, banned_users, disk, now, faulty, lossy, tasks, failures, hung,
          reply>>

----------------------------------------------------------------------------
(* Bounds of the model *)

MaxTime == 1          \* the clock runs over 0..MaxTime
MaxFailures == 1      \* at most this many saves fail in one run
MaxDangling == 1      \* at most this many redeemed codes are deleted between resets
MaxTasks == 2         \* at most this many handlers are suspended at a time

----------------------------------------------------------------------------
(* Strings.  A string that the code converts (upper(), str(int)) is a      *)
(* sequence of one-character strings; an opaque text is a TLA+ string.     *)

DigitChar(d) ==
    CASE d = 0 -> "0" [] d = 1 -> "1" [] d = 2 -> "2" [] d = 3 -> "3"
      [] d = 4 -> "4" [] d = 5 -> "5" [] d = 6 -> "6" [] d = 7 -> "7"
      [] d = 8 -> "8" [] d = 9 -> "9"

RECURSIVE Str(_)
\* str(n) for a non-negative integer n: decimal digits, no leading zero
Str(n) == IF n < 10 THEN <<DigitChar(n)>>
          ELSE Str(n \div 10) \o <<DigitChar(n % 10)>>

UpperCharBroken(c) == c

\* str.upper() on one character of the model's alphabet
UpperChar(c) ==
    CASE c = "a" -> "A" [] c = "b" -> "B" [] c = "g" -> "G" [] OTHER -> c

\* str.upper()
Upper(s) == [i \in 1..Len(s) |-> UpperChar(s[i])]

IsUpper(s) == \A i \in 1..Len(s) : s[i] \notin {"a", "b", "g"}

----------------------------------------------------------------------------
(* Configuration and inputs *)

\* ADMIN_ID = os.getenv('ADMIN_ID'): the decimal string of the admin's id
ADMIN_ID == <<"1">>

\* Python's None for an optional name; "" is the other falsy string
NoName == "None"
\* Python's None for codes[code]['redeemer']
None == [none |-> TRUE]

\* update.effective_user: the users that talk to the bot.  User 1 is the
\* admin (no last name); user 2 has no username.
Identities ==
    { [id |-> 1, username |-> "alwayszihan", first_name |-> "Zihan", last_name |-> ""],
      [id |-> 2, username |-> NoName,        first_name |-> "Bob",   last_name |-> "B"] }

UserIdStrs == { Str(u.id) : u \in Identities }

\* context.args[0] of /redeem, /addcode, /addprize, /delcode: two spellings
\* of one key, or two keys
CaseArgs == { <<"g", "0">>, <<"G", "0">> }
CodeArgs == { <<"a">>, <<"A">>, <<"g", "0">> }
\* context.args[1] of /gencode
PrefixArgs == { <<"g">> }
\* the suffixes random.choices(...) can draw (36^4 of them in the code, one
\* here, so that a prefix's key space can be exhausted)
Suffixes == { <<"0">> }
\* a source of two suffixes, for calls that generate more than one code
MoreSuffixes == { <<"0">>, <<"1">> }
\* context.args[0] of /gencode: int(...) raises ValueError when not valid
NumArgs == { [valid |-> FALSE, n |-> 0], [valid |-> TRUE, n |-> -1],
             [valid |-> TRUE, n |-> 0],  [valid |-> TRUE, n |-> 1],
             [valid |-> TRUE, n |-> 2],  [valid |-> TRUE, n |-> 51] }
SmallNums == { x \in NumArgs : x.valid /\ x.n \in {1, 2} }
\* ' '.join(context.args[1:]) of /addprize
PrizeArgs == { "iPhone 15" }
\* context.args[0] of /ban and /unban: any text
BanArgs == { <<"1">>, <<"2">>, <<"0", "1">> }

NO_PRIZE == "No prize set"
GEN_LIMIT == 50

----------------------------------------------------------------------------
(* Small helpers on mappings and lists *)

Put(f, k, v) == [x \in (DOMAIN f) \cup {k} |-> IF x = k THEN v ELSE f[x]]
Del_keeps(f, k) == f

\* del f[k]
Del(f, k) == [x \in (DOMAIN f) \ {k} |-> f[x]]
Elems(l) == { l[i] : i \in 1..Len(l) }
\* list.remove(x): removes the first occurrence
Remove(l, x) ==
    LET i == CHOOSE j \in 1..Len(l) : l[j] = x /\ \A k \in 1..(j-1) : l[k] # x
    IN  [j \in 1..(Len(l) - 1) |-> IF j < i THEN l[j] ELSE l[j + 1]]

\* x or 'N/A'
OrNA(x) == IF x \in {NoName, ""} THEN "N/A" ELSE x

\* datetime.now().isoformat() and .strftime("%Y-%m-%d %H:%M:%S")
IsoFormat(t) == [iso |-> t]
StrfTime(t) == [ymdhms |-> t]

----------------------------------------------------------------------------
(* Persistence: load_data / save_data *)

FileNames == {"codes", "users", "banned"}
Missing == [state |-> "missing"]
Corrupt == [state |-> "corrupt"]
Stored(data) == [state |-> "ok", data |-> data]

\* what one save_data call can do: write the file, fail before touching it
\* (open raises), or fail after truncating it (dump raises)
SaveOutcomes == {"ok", "open_failed", "dump_failed"}
Failed(o) == IF o = "ok" THEN 0 ELSE 1

save_data_dropped(d, filename, data, o) == d

\* a save that adds to the stored document instead of replacing it
save_data_merge(d, filename, data, o) ==
    CASE o = "ok" ->
           IF d[filename].state = "ok"
           THEN LET old == d[filename].data
                IN  [d EXCEPT ![filename] =
                       Stored([k \in DOMAIN old \cup DOMAIN data |->
                                 IF k \in DOMAIN data THEN data[k] ELSE old[k]])]
           ELSE [d EXCEPT ![filename] = Stored(data)]
      [] o = "open_failed" -> d
      [] o = "dump_failed" -> [d EXCEPT ![filename] = Corrupt]

save_data(d, filename, data, o) ==
    CASE o = "ok"          -> [d EXCEPT ![filename] = Stored(data)]
      [] o = "open_failed" -> d
      [] o = "dump_failed" -> [d EXCEPT ![filename] = Corrupt]

\* a load that gives up on every document when one file cannot be read
load_data_coupled(d, filename, default) ==
    IF \A f \in FileNames : d[f].state \in {"ok", "missing"}
    THEN (IF d[filename].state = "ok" THEN d[filename].data ELSE default)
    ELSE default

load_data(d, filename, default) ==
    IF d[filename].state = "ok" THEN d[filename].data ELSE default

----------------------------------------------------------------------------
(* GiveawayBot methods *)

is_admin_anyone(user_id) == TRUE

is_admin(user_id) == Str(user_id) = ADMIN_ID

is_banned(user_id) == Str(user_id) \in Elems(banned_users)

NewUser(user, t) ==
    [ username |-> OrNA(user.username),
      first_name |-> OrNA(user.first_name),
      last_name |-> OrNA(user.last_name),
      join_date |-> IsoFormat(t),
      redeemed_codes |-> <<>> ]

register_user_overwrite(us, user, t) == Put(us, Str(user.id), NewUser(user, t))

register_user_skip(us, user, t) == us

\* self.users after register_user(user)
register_user(us, user, t) ==
    IF Str(user.id) \notin DOMAIN us
    THEN Put(us, Str(user.id), NewUser(user, t))
    ELSE us

\* the files after register_user(user): saved on insert only
register_user_disk(d, us, user, t, o) ==
    IF Str(user.id) \notin DOMAIN us
    THEN save_data(d, "users", register_user(us, user, t), o)
    ELSE d

NewCode(t) ==
    [ prize |-> NO_PRIZE, redeemed |-> FALSE, redeemer |-> None,
      created_date |-> IsoFormat(t) ]

Redeemer(user, t) ==
    [ user_id |-> Str(user.id),
      username |-> OrNA(user.username),
      first_name |-> OrNA(user.first_name),
      last_name |-> OrNA(user.last_name),
      date |-> StrfTime(t) ]

RedemptionRecord(code, prize, t) ==
    [ code |-> code, prize |-> prize, date |-> StrfTime(t) ]

----------------------------------------------------------------------------
\* What a handler did: the command, its caller and arguments, the branch it
\* took and what it reported.  notified lists the handler's attempts to send
\* the admin a message (only redeem makes any); raised says that the handler
\* ended with an exception instead of returning.
Result(op, user, arg, outcome, info) ==
    [op |-> op, caller |-> user.id, arg |-> arg, outcome |-> outcome, info |-> info,
     notified |-> <<>>, raised |-> FALSE]

InitWith(f, l) ==
    /\ codes = <<>>
    /\ users = <<>>
    /\ banned_users = <<>>
    /\ disk = [x \in FileNames |-> Missing]
    /\ now = 0
    /\ faulty = f
    /\ lossy = l
    /\ tasks = {}
    /\ failures = 0
    /\ hung = FALSE
    /\ reply = Result("init", [id |-> 0], <<>>, "", None)

\* first start on a storage whose writes succeed
Init == InitWith(FALSE, FALSE)

\* the clock advances between (and never inside) handlers
Tick ==
    /\ ~hung
    /\ now < MaxTime
    /\ now' = now + 1
    /\ UNCHANGED <<codes, users, banned_users, disk, faulty, lossy, tasks, failures, hung,
                   reply>>

\* the save outcomes os (a sequence, one per save_data call) the storage can
\* produce now
Budget(os) ==
    \/ \A i \in 1..Len(os) : os[i] = "ok"
    \/ /\ faulty
       /\ failures + Len(SelectSeq(os, LAMBDA o : o # "ok")) <= MaxFailures

\* a handler that only answers
Answer(op, user, arg, outcome, info) ==
    /\ reply' = Result(op, user, arg, outcome, info)
    /\ UNCHANGED <<codes, users, banned_users, disk, now, faulty, lossy, failures, hung>>

----------------------------------------------------------------------------
(* /start *)

Start(user) ==
    /\ ~hung
    /\ IF is_banned(user.id)
       THEN Answer("start", user, <<>>, "Banned", None)
       ELSE \E o \in SaveOutcomes :
            /\ IF Str(user.id) \notin DOMAIN users THEN Budget(<<o>>) ELSE o = "ok"
            /\ users' = register_user(users, user, now)
            /\ disk' = register_user_disk(disk, users, user, now, o)
            /\ failures' = failures + Failed(o)
            /\ reply' = Result("start", user, <<>>, "Welcome", None)
            /\ UNCHANGED <<codes, banned_users, now, faulty, lossy, hung>>

----------------------------------------------------------------------------
(* /redeem *)

redeem_outcome_no_redeemed_check(cs, bl, user, args) ==
    IF Str(user.id) \in Elems(bl) THEN "Banned"
    ELSE IF args = <<>> THEN "Usage"
    ELSE IF Upper(args[1]) \notin DOMAIN cs THEN "InvalidCode"
    ELSE "Success"

redeem_outcome_no_ban_check(cs, bl, user, args) ==
    IF args = <<>> THEN "Usage"
    ELSE IF Upper(args[1]) \notin DOMAIN cs THEN "InvalidCode"
    ELSE IF cs[Upper(args[1])].redeemed THEN "AlreadyRedeemed"
    ELSE "Success"

\* the branch redeem takes: its early returns, in order
redeem_outcome(cs, bl, user, args) ==
    IF Str(user.id) \in Elems(bl) THEN "Banned"
    ELSE IF args = <<>> THEN "Usage"
    ELSE IF Upper(args[1]) \notin DOMAIN cs THEN "InvalidCode"
    ELSE IF cs[Upper(args[1])].redeemed THEN "AlreadyRedeemed"
    ELSE "Success"

redeem_codes_flag_only(cs, code, user, t) ==
    [cs EXCEPT ![code].redeemed = TRUE]

\* codes after "Redeem the code"
redeem_codes(cs, code, user, t) ==
    [cs EXCEPT ![code].redeemed = TRUE, ![code].redeemer = Redeemer(user, t)]

\* users after "Add to user's redeemed codes"
redeem_users_no_append(us, cs, code, user, t) == us

redeem_users(us, cs, code, user, t) ==
    [us EXCEPT ![Str(user.id)].redeemed_codes =
        Append(@, RedemptionRecord(code, cs[code].prize, t))]

\* whether a send to Telegram goes through; it can raise only when lossy
Deliveries == IF lossy THEN BOOLEAN ELSE {TRUE}

redeem_sends_unguarded(user, code, prize, reply_ok, notify_ok) ==
    [ notified |-> IF reply_ok
                   THEN << [chat |-> ADMIN_ID, user |-> user.id, code |-> code,
                            prize |-> prize, ok |-> notify_ok] >>
                   ELSE <<>>,
      raised |-> ~reply_ok \/ ~notify_ok ]

\* The two sends that end a successful redeem.  The reply to the user is
\* awaited outside any try: when it raises, the handler ends there and the
\* admin is not notified.  The notification is inside try/except: when it
\* raises, the error is logged and the handler returns.
redeem_sends(user, code, prize, reply_ok, notify_ok) ==
    [ notified |-> IF reply_ok
                   THEN << [chat |-> ADMIN_ID, user |-> user.id, code |-> code,
                            prize |-> prize, ok |-> notify_ok] >>
                   ELSE <<>>,
      raised |-> ~reply_ok ]

Redeem(user, args) ==
    /\ ~hung
    /\ LET outcome == redeem_outcome(codes, banned_users, user, args)
           fresh == Str(user.id) \notin DOMAIN users
           us1 == register_user(users, user, now)
       IN
       IF outcome = "Banned"
       THEN Answer("redeem", user, args, "Banned", None)
       ELSE IF outcome # "Success"
       THEN \E o \in SaveOutcomes :
            /\ IF fresh THEN Budget(<<o>>) ELSE o = "ok"
            /\ users' = us1
            /\ disk' = register_user_disk(disk, users, user, now, o)
            /\ failures' = failures + Failed(o)
            /\ reply' = Result("redeem", user, args, outcome,
                               IF outcome = "AlreadyRedeemed"
                               THEN codes[Upper(args[1])].redeemer ELSE None)
            /\ UNCHANGED <<codes, banned_users, now, faulty, lossy, hung>>
       ELSE \E oR, oC, oU \in SaveOutcomes, reply_ok, notify_ok \in Deliveries :
            LET code == Upper(args[1])
                cs2 == redeem_codes(codes, code, user, now)
                us2 == redeem_users(us1, cs2, code, user, now)
                d1 == register_user_disk(disk, users, user, now, oR)
                d2 == save_data(d1, "codes", cs2, oC)
                d3 == save_data(d2, "users", us2, oU)
                sends == redeem_sends(user, code, cs2[code].prize, reply_ok, notify_ok)
            IN
            /\ IF fresh THEN Budget(<<oR, oC, oU>>)
                        ELSE oR = "ok" /\ Budget(<<oC, oU>>)
            /\ codes' = cs2
            /\ users' = us2
            /\ disk' = d3
            /\ failures' = failures + Failed(oR) + Failed(oC) + Failed(oU)
            /\ reply' = [Result("redeem", user, args, "Success", cs2[code].prize)
                            EXCEPT !.notified = sends.notified, !.raised = sends.raised]
            /\ UNCHANGED <<banned_users, now, faulty, lossy, hung>>

----------------------------------------------------------------------------
(* Admin commands on codes *)

addcode_outcome_no_duplicate_check(user, cs, args) ==
    IF ~is_admin(user.id) THEN "AdminOnly"
    ELSE IF args = <<>> THEN "Usage"
    ELSE "Added"

addcode_outcome(user, cs, args) ==
    IF ~is_admin(user.id) THEN "AdminOnly"
    ELSE IF args = <<>> THEN "Usage"
    ELSE IF Upper(args[1]) \in DOMAIN cs THEN "DuplicateCode"
    ELSE "Added"

AddCode(user, args) ==
    /\ ~hung
    /\ LET outcome == addcode_outcome(user, codes, args) IN
       IF outcome # "Added"
       THEN Answer("addcode", user, args, outcome, None)
       ELSE \E o \in SaveOutcomes :
            /\ Budget(<<o>>)
            /\ codes' = Put(codes, Upper(args[1]), NewCode(now))
            /\ disk' = save_data(disk, "codes", codes', o)
            /\ failures' = failures + Failed(o)
            /\ reply' = Result("addcode", user, args, "Added", None)
            /\ UNCHANGED <<users, banned_users, now, faulty, lossy, hung>>

addprize_outcome(user, cs, args) ==
    IF ~is_admin(user.id) THEN "AdminOnly"
    ELSE IF Len(args) < 2 THEN "Usage"
    ELSE IF Upper(args[1]) \notin DOMAIN cs THEN "UnknownCode"
    ELSE "PrizeSet"

AddPrize(user, args) ==
    /\ ~hung
    /\ LET outcome == addprize_outcome(user, codes, args) IN
       IF outcome # "PrizeSet"
       THEN Answer("addprize", user, args, outcome, None)
       ELSE \E o \in SaveOutcomes :
            /\ Budget(<<o>>)
            /\ codes' = [codes EXCEPT ![Upper(args[1])].prize = args[2]]
            /\ disk' = save_data(disk, "codes", codes', o)
            /\ failures' = failures + Failed(o)
            /\ reply' = Result("addprize", user, args, "PrizeSet", None)
            /\ UNCHANGED <<users, banned_users, now, faulty, lossy, hung>>

delcode_outcome(user, cs, args) ==
    IF ~is_admin(user.id) THEN "AdminOnly"
    ELSE IF args = <<>> THEN "Usage"
    ELSE IF Upper(args[1]) \notin DOMAIN cs THEN "UnknownCode"
    ELSE "Deleted"

RECURSIVE RecordCount(_, _)
\* how many redemption records the users in S hold
RecordCount(us, S) ==
    IF S = {} THEN 0
    ELSE LET u == CHOOSE x \in S : TRUE
         IN  Len(us[u].redeemed_codes) + RecordCount(us, S \ {u})

\* how many redemption records are left over from deleted codes
Dangling(cs, us) ==
    RecordCount(us, DOMAIN us) - Cardinality({ c \in DOMAIN cs : cs[c].redeemed })

DelCode(user, args) ==
    /\ ~hung
    /\ LET outcome == delcode_outcome(user, codes, args) IN
       IF outcome # "Deleted"
       THEN Answer("delcode", user, args, outcome, None)
       ELSE \E o \in SaveOutcomes :
            /\ codes[Upper(args[1])].redeemed
                  => Dangling(codes, users) < MaxDangling
            /\ Budget(<<o>>)
            /\ codes' = Del(codes, Upper(args[1]))
            /\ disk' = save_data(disk, "codes", codes', o)
            /\ failures' = failures + Failed(o)
            /\ reply' = Result("delcode", user, args, "Deleted", None)
            /\ UNCHANGED <<users, banned_users, now, faulty, lossy, hung>>

----------------------------------------------------------------------------
(* /gencode *)

gencode_outcome(user, num, args) ==
    IF ~is_admin(user.id) THEN "AdminOnly"
    ELSE IF Len(args) < 2 THEN "Usage"
    ELSE IF ~num.valid THEN "InvalidArgument"
    ELSE IF num.n > GEN_LIMIT THEN "LimitExceeded"
    ELSE "Generated"

\* the keys prefix+suffix the retry loop can still leave with, when
\* random.choices draws from S
FreshKeys(cs, prefix, S) == { Upper(prefix) \o x : x \in S } \ DOMAIN cs

RECURSIVE PutAll(_, _, _)
PutAll(cs, keys, t) ==
    IF keys = <<>> THEN cs
    ELSE PutAll(Put(cs, Head(keys), NewCode(t)), Tail(keys), t)

\* the sequences of n pairwise distinct elements of S
RECURSIVE Draws(_, _)
Draws(S, n) ==
    IF n <= 0 THEN { <<>> }
    ELSE UNION { { <<k>> \o rest : rest \in Draws(S \ {k}, n - 1) } : k \in S }

\* One whole /gencode.  args = <<number, prefix>> or shorter; num is what
\* int(args[0]) gives and S the suffixes the random source draws.  range(n)
\* is empty for n <= 0.  The loops have no await: when fewer fresh keys
\* exist than asked for, the handler adds them all and then draws forever
\* (hung), and no other handler runs again.
GenCode(user, num, args, S) ==
    /\ ~hung
    /\ LET outcome == gencode_outcome(user, num, args) IN
       IF outcome # "Generated"
       THEN Answer("gencode", user, args, outcome, None)
       ELSE LET fresh == FreshKeys(codes, args[2], S) IN
            IF num.n <= Cardinality(fresh)
            THEN \E generated_codes \in Draws(fresh, num.n), o \in SaveOutcomes :
                 /\ Budget(<<o>>)
                 /\ codes' = PutAll(codes, generated_codes, now)
                 /\ disk' = save_data(disk, "codes", codes', o)
                 /\ failures' = failures + Failed(o)
                 /\ reply' = Result("gencode", user, args, "Generated", generated_codes)
                 /\ UNCHANGED <<users, banned_users, now, faulty, lossy, hung>>
            ELSE \E generated_codes \in Draws(fresh, Cardinality(fresh)) :
                 /\ codes' = PutAll(codes, generated_codes, now)
                 /\ hung' = TRUE
                 /\ reply' = Result("gencode", user, args, "NoReturn", generated_codes)
                 /\ UNCHANGED <<users, banned_users, disk, now, faulty, lossy, failures>>

----------------------------------------------------------------------------
(* /ban, /unban, /resetgiveaway *)

ban_outcome_no_self_check(user, bl, args) ==
    IF ~is_admin(user.id) THEN "AdminOnly"
    ELSE IF args = <<>> THEN "Usage"
    ELSE IF args[1] \notin Elems(bl) THEN "Banned"
    ELSE "AlreadyBanned"

ban_outcome(user, bl, args) ==
    IF ~is_admin(user.id) THEN "AdminOnly"
    ELSE IF args = <<>> THEN "Usage"
    ELSE IF args[1] = ADMIN_ID THEN "CannotBanSelf"
    ELSE IF args[1] \notin Elems(bl) THEN "Banned"
    ELSE "AlreadyBanned"

BanUser(user, args) ==
    /\ ~hung
    /\ LET outcome == ban_outcome(user, banned_users, args) IN
       IF outcome # "Banned"
       THEN Answer("ban", user, args, outcome, None)
       ELSE \E o \in SaveOutcomes :
            /\ Budget(<<o>>)
            /\ banned_users' = Append(banned_users, args[1])
            /\ disk' = save_data(disk, "banned", banned_users', o)
            /\ failures' = failures + Failed(o)
            /\ reply' = Result("ban", user, args, "Banned", None)
            /\ UNCHANGED <<codes, users, now, faulty, lossy, hung>>

unban_outcome(user, bl, args) ==
    IF ~is_admin(user.id) THEN "AdminOnly"
    ELSE IF args = <<>> THEN "Usage"
    ELSE IF args[1] \in Elems(bl) THEN "Unbanned"
    ELSE "NotBanned"

UnbanUser(user, args) ==
    /\ ~hung
    /\ LET outcome == unban_outcome(user, banned_users, args) IN
       IF outcome # "Unbanned"
       THEN Answer("unban", user, args, outcome, None)
       ELSE \E o \in SaveOutcomes :
            /\ Budget(<<o>>)
            /\ banned_users' = Remove(banned_users, args[1])
            /\ disk' = save_data(disk, "banned", banned_users', o)
            /\ failures' = failures + Failed(o)
            /\ reply' = Result("unban", user, args, "Unbanned", None)
            /\ UNCHANGED <<codes, users, now, faulty, lossy, hung>>

reset_codes_keep_redeemed(cs) == cs

\* codes after "Reset all codes to unredeemed"
reset_codes(cs) ==
    [c \in DOMAIN cs |-> [cs[c] EXCEPT !.redeemed = FALSE, !.redeemer = None]]

\* users after "Clear user redemption history"
reset_users(us) ==
    [u \in DOMAIN us |-> [us[u] EXCEPT !.redeemed_codes = <<>>]]

ResetGiveaway(user) ==
    /\ ~hung
    /\ IF ~is_admin(user.id)
       THEN Answer("resetgiveaway", user, <<>>, "AdminOnly", None)
       ELSE \E oC, oU \in SaveOutcomes :
            /\ Budget(<<oC, oU>>)
            /\ codes' = reset_codes(codes)
            /\ users' = reset_users(users)
            /\ disk' = save_data(save_data(disk, "codes", codes', oC),
                                 "users", users', oU)
            /\ failures' = failures + Failed(oC) + Failed(oU)
            /\ reply' = Result("resetgiveaway", user, <<>>, "Reset", None)
            /\ UNCHANGED <<banned_users, now, faulty, lossy, hung>>

----------------------------------------------------------------------------
(* /broadcast *)

broadcast_outcome(user, args) ==
    IF ~is_admin(user.id) THEN "AdminOnly"
    ELSE IF args = <<>> THEN "Usage"
    ELSE "Broadcast"

RECURSIVE Keys(_)
\* users.keys(): the keys of a dict, each once, in the dict's order
Keys(S) == IF S = {} THEN <<>>
           ELSE LET k == CHOOSE x \in S : TRUE IN <<k>> \o Keys(S \ {k})

RECURSIVE broadcast_loop(_, _, _)
\* the send attempts of "for user_id in bot_instance.users.keys()": one for
\* each key that is not in the ban list; oks says which sends go through
broadcast_loop(keys, bl, oks) ==
    IF keys = <<>> THEN <<>>
    ELSE IF Head(keys) \in Elems(bl) THEN broadcast_loop(Tail(keys), bl, oks)
    ELSE << [chat |-> Head(keys), ok |-> oks[Head(keys)]] >>
           \o broadcast_loop(Tail(keys), bl, oks)

\* One whole /broadcast (updates are handled one after the other, so no
\* other handler runs during its awaits).  The first reply, "Broadcasting
\* message to all users...", is awaited outside any try: when it raises the
\* handler ends before the loop.  The last reply reports the two counters.
Broadcast(user, args) ==
    /\ ~hung
    /\ LET outcome == broadcast_outcome(user, args) IN
       IF outcome # "Broadcast"
       THEN Answer("broadcast", user, args, outcome, None)
       ELSE \E first_ok, last_ok \in Deliveries, oks \in [DOMAIN users -> Deliveries] :
            LET attempts == IF first_ok
                            THEN broadcast_loop(Keys(DOMAIN users), banned_users, oks)
                            ELSE <<>>
                sent_count == Len(SelectSeq(attempts, LAMBDA a : a.ok))
                failed_count == Len(SelectSeq(attempts, LAMBDA a : ~a.ok))
            IN
            /\ ~first_ok => (last_ok /\ \A u \in DOMAIN users : oks[u])
            /\ reply' = [Result("broadcast", user, args, "Broadcast",
                                [ attempts |-> attempts, sent |-> sent_count,
                                  failed |-> failed_count ])
                            EXCEPT !.raised = ~first_ok \/ ~last_ok]
            /\ UNCHANGED <<codes, users, banned_users, disk, now, faulty, lossy, failures, hung>>

----------------------------------------------------------------------------
(* The process stops and is started again *)

\* GiveawayBot.__init__ in a new process: the three documents are loaded
\* from their files; a handler that was spinning is gone with the old
\* process, and so are the handlers that were suspended.
Restart ==
    /\ codes' = load_data(disk, "codes", <<>>)
    /\ users' = load_data(disk, "users", <<>>)
    /\ banned_users' = load_data(disk, "banned", <<>>)
    /\ hung' = FALSE
    /\ tasks' = {}
    /\ reply' = Result("restart", [id |-> 0], <<>>, "Started", None)
    /\ UNCHANGED <<disk, now, faulty, lossy, failures>>

----------------------------------------------------------------------------
(* /stats *)

\* f"{x:.1f}" of x = r/t*100: the number of tenths, rounded
Format1f(r, t) == [tenths |-> (2000 * r + t) \div (2 * t)]

\* The f-string evaluates redeemed_codes/total_codes*100 whatever
\* total_codes is: "if total_codes > 0 else 0%" is text of the message, not
\* a condition.  With no codes the division raises ZeroDivisionError and the
\* handler ends without an answer.
Stats(user) ==
    /\ ~hung
    /\ LET total_codes == Cardinality(DOMAIN codes)
           redeemed_codes == Cardinality({ c \in DOMAIN codes : codes[c].redeemed })
           total_users == Cardinality(DOMAIN users)
           banned == Len(banned_users)
       IN
       IF ~is_admin(user.id)
       THEN Answer("stats", user, <<>>, "AdminOnly", None)
       ELSE IF total_codes = 0
       THEN /\ reply' = [Result("stats", user, <<>>, "ZeroDivisionError", None)
                            EXCEPT !.raised = TRUE]
            /\ UNCHANGED <<codes, users, banned_users, disk, now, faulty, lossy, failures, hung>>
       ELSE Answer("stats", user, <<>>, "Stats",
                   [ total |-> total_codes, redeemed |-> redeemed_codes,
                     available |-> total_codes - redeemed_codes,
                     total_users |-> total_users, banned_users |-> banned,
                     active_users |-> total_users - banned,
                     rate |-> Format1f(redeemed_codes, total_codes) ])

----------------------------------------------------------------------------
(* /listcodes and /stopbot *)

\* the lines of the listing: each code with its prize and status, and the
\* first name of its redeemer when it is redeemed
listcodes_text(cs) ==
    [ c \in DOMAIN cs |->
        [ prize |-> cs[c].prize, redeemed |-> cs[c].redeemed,
          by |-> IF cs[c].redeemed THEN cs[c].redeemer.first_name ELSE NoName ] ]

ListCodes(user) ==
    /\ ~hung
    /\ IF ~is_admin(user.id) THEN Answer("listcodes", user, <<>>, "AdminOnly", None)
       ELSE IF DOMAIN codes = {} THEN Answer("listcodes", user, <<>>, "NoCodes", None)
       ELSE Answer("listcodes", user, <<>>, "Codes", listcodes_text(codes))

\* The admin's /stopbot answers (outside any try), tells the admin in a
\* message of its own (inside try/except) and stops the application: no
\* update is handled after it until the process is started again.
StopBot(user) ==
    /\ ~hung
    /\ IF ~is_admin(user.id) THEN Answer("stopbot", user, <<>>, "AdminOnly", None)
       ELSE \E reply_ok, note_ok \in Deliveries :
            /\ ~reply_ok => note_ok
            /\ reply' = [Result("stopbot", user, <<>>, "Stopping", None)
                            EXCEPT !.notified = IF reply_ok
                                                THEN << [chat |-> ADMIN_ID, ok |-> note_ok] >>
                                                ELSE <<>>,
                                   !.raised = ~reply_ok]
            /\ hung' = reply_ok
            /\ UNCHANGED <<codes, users, banned_users, disk, now, faulty, lossy, failures>>

----------------------------------------------------------------------------
(* The bot's commands as they arrive: anybody may /start and /redeem; the  *)
(* admin commands are sent by the admin, with their arguments.             *)

Admins == { u \in Identities : is_admin(u.id) }

\* Updates are handled one after the other (Application.builder() is built
\* without concurrent_updates): a handler runs to its end, awaits included,
\* before the next one starts, and none is left suspended.
Sequential == UNCHANGED tasks

\* /start and /redeem, by anybody, with code arguments drawn from CA
Play(CA) ==
    \/ \E user \in Identities : Start(user) /\ Sequential
    \/ \E user \in Identities, c \in CA : Redeem(user, <<c>>) /\ Sequential
    \/ \E user \in Identities : Redeem(user, <<>>) /\ Sequential

\* the code life cycle
Manage(CA) ==
    \/ \E user \in Admins, c \in CA : AddCode(user, <<c>>) /\ Sequential
    \/ \E user \in Admins, c \in CA : DelCode(user, <<c>>) /\ Sequential
    \/ \E user \in Admins, num \in SmallNums, p \in PrefixArgs :
          GenCode(user, num, <<num, p>>, Suffixes) /\ Sequential
    \/ \E user \in Admins : ResetGiveaway(user) /\ Sequential

Prizes(CA) ==
    \E user \in Admins, c \in CA, p \in PrizeArgs : AddPrize(user, <<c, p>>) /\ Sequential

Bans ==
    \/ \E user \in Admins, b \in BanArgs : BanUser(user, <<b>>) /\ Sequential
    \/ \E user \in Admins, b \in BanArgs : UnbanUser(user, <<b>>) /\ Sequential

\* Spec: one code key written in two cases, a running clock, the ban list
Next == Tick \/ Play(CaseArgs) \/ Manage(CaseArgs) \/ Bans

Spec == Init /\ [][Next]_vars

\* SpecCodes: two code keys with prizes, and a clock that stands still
NextCodes == Play(CodeArgs) \/ Manage(CodeArgs) \/ Prizes(CodeArgs)

SpecCodes == Init /\ [][NextCodes]_vars

\* SpecFaulty: a storage whose writes can fail, and restarts of the process;
\* the clock stands still
OneCode == { <<"g", "0">> }

NextFaulty ==
    \/ Play(OneCode) \/ Manage(OneCode)
    \/ \E user \in Admins : BanUser(user, << <<"2">> >>) /\ Sequential
    \/ \E user \in Admins : UnbanUser(user, << <<"2">> >>) /\ Sequential
    \/ Restart

SpecFaulty == InitWith(TRUE, FALSE) /\ [][NextFaulty]_vars

\* SpecOps: every command that changes a document, on a storage whose
\* writes succeed, and restarts of the process; the clock stands still
NextOps ==
    \/ Play(CaseArgs) \/ Manage(CaseArgs) \/ Prizes(CaseArgs) \/ Bans
    \/ Restart

SpecOps == Init /\ [][NextOps]_vars

\* SpecLossy: sends to Telegram can raise
BroadcastArgs == { <<"hi">> }

NextLossy ==
    \/ Play(OneCode)
    \/ \E user \in Admins, c \in OneCode : AddCode(user, <<c>>) /\ Sequential
    \/ \E user \in Admins : ResetGiveaway(user) /\ Sequential
    \/ \E user \in Admins : BanUser(user, << <<"2">> >>) /\ Sequential
    \/ \E user \in Admins : UnbanUser(user, << <<"2">> >>) /\ Sequential
    \/ \E user \in Identities, args \in BroadcastArgs \cup {<<>>} : Broadcast(user, args) /\ Sequential

SpecLossy == InitWith(FALSE, TRUE) /\ [][NextLossy]_vars

\* SpecGen: /gencode with every kind of number, both spellings of a prefix
\* and a source of two suffixes, next to /addcode, /redeem and /stats
GenPrefixes == { <<"g">>, <<"G">> }

NextGen ==
    \/ \E user \in Admins : AddCode(user, << <<"g", "0">> >>) /\ Sequential
    \/ \E user \in Admins : DelCode(user, << <<"g", "0">> >>) /\ Sequential
    \/ \E user \in Identities, c \in { <<"g", "0">>, <<"g", "1">> } :
          Redeem(user, <<c>>) /\ Sequential
    \/ \E user \in Identities, num \in NumArgs, p \in GenPrefixes :
          GenCode(user, num, <<num, p>>, MoreSuffixes) /\ Sequential
    \/ \E user \in Admins, num \in NumArgs : GenCode(user, num, <<num>>, MoreSuffixes) /\ Sequential
    \/ \E user \in Identities : Stats(user) /\ Sequential

SpecGen == Init /\ [][NextGen]_vars

----------------------------------------------------------------------------
(* Handlers that interleave at their awaits.  A handler runs from its      *)
(* start, or from the await it was suspended at, to its next await without *)
(* interruption; there another handler may start or go on.  Every handler  *)
(* but /broadcast has all its awaits after its last access to the          *)
(* documents: its action above is its run up to the first await.           *)

\* the handler that answered r, suspended at its first await
Suspended(r) ==
    [op |-> r.op, caller |-> r.caller, arg |-> r.arg, outcome |-> r.outcome, pc |-> "reply"]

CanSuspend == Cardinality(tasks) < MaxTasks

Suspend == tasks' = tasks \cup { Suspended(reply') }

\* A suspended handler other than /broadcast goes on: a successful redeem
\* goes from its reply to the notification of the admin, any other handler
\* returns.
Resume(t) ==
    /\ t.op # "broadcast"
    /\ tasks' = IF t.op = "redeem" /\ t.outcome = "Success" /\ t.pc = "reply"
                THEN (tasks \ {t}) \cup { [t EXCEPT !.pc = "notify"] }
                ELSE tasks \ {t}
    /\ UNCHANGED <<codes, users, banned_users, disk, now, faulty, lossy, failures, hung,
                   reply>>

\* /broadcast up to its first await: the AdminOnly or Usage reply, or the
\* reply "Broadcasting message to all users..."
BroadcastBegin(user, args) ==
    /\ ~hung
    /\ LET outcome == broadcast_outcome(user, args) IN
       /\ reply' = Result("broadcast", user, args,
                          IF outcome = "Broadcast" THEN "Broadcasting" ELSE outcome, None)
       /\ tasks' = tasks \cup
             { [ op |-> "broadcast", caller |-> user.id, arg |-> args, outcome |-> outcome,
                 pc |-> IF outcome = "Broadcast" THEN "status" ELSE "reply",
                 size |-> 0, pos |-> 0, attempts |-> <<>> ] }
    /\ UNCHANGED <<codes, users, banned_users, disk, now, faulty, lossy, failures, hung>>

\* The for statement of /broadcast asks the iterator of users.keys() for the
\* next key: the iterator raises RuntimeError when the dict has another size
\* than when the loop began; banned keys are passed over; the handler is
\* suspended again at the send to the next key, or at the last reply.
broadcast_next(t, us, bl) ==
    LET keys == Keys(DOMAIN us)
        later == { i \in (t.pos + 1)..Len(keys) : keys[i] \notin Elems(bl) }
    IN  IF Cardinality(DOMAIN us) # t.size THEN [t EXCEPT !.pc = "raised"]
        ELSE IF later = {} THEN [t EXCEPT !.pc = "final"]
        ELSE LET i == CHOOSE x \in later : \A y \in later : x <= y
             IN  [t EXCEPT !.pc = "send", !.pos = i, !.attempts = Append(@, keys[i])]

\* /broadcast goes on from the await it was suspended at
BroadcastResume(t) ==
    /\ t.op = "broadcast"
    /\ LET t2 == CASE t.pc = "status" ->
                       broadcast_next([t EXCEPT !.size = Cardinality(DOMAIN users)],
                                      users, banned_users)
                   [] t.pc = "send" -> broadcast_next(t, users, banned_users)
                   [] OTHER -> [t EXCEPT !.pc = "done"]
       IN
       /\ tasks' = IF t2.pc \in {"raised", "done"}
                   THEN tasks \ {t}
                   ELSE (tasks \ {t}) \cup {t2}
       /\ reply' = IF t2.pc = "raised"
                   THEN [Result("broadcast", [id |-> t.caller], t.arg, "RuntimeError",
                                [attempts |-> t.attempts])
                           EXCEPT !.raised = TRUE]
                   ELSE IF t.pc = "final"
                   THEN Result("broadcast", [id |-> t.caller], t.arg, "Broadcast",
                               [attempts |-> t.attempts])
                   ELSE reply
    /\ UNCHANGED <<codes, users, banned_users, disk, now, faulty, lossy, failures, hung>>

\* SpecAsync: handlers interleave at their awaits
NextAsync ==
    \/ \E user \in Identities : CanSuspend /\ Start(user) /\ Suspend
    \/ \E user \in Identities, c \in OneCode :
          CanSuspend /\ Redeem(user, <<c>>) /\ Suspend
    \/ \E user \in Admins, c \in OneCode : CanSuspend /\ AddCode(user, <<c>>) /\ Suspend
    \/ \E user \in Admins : CanSuspend /\ ResetGiveaway(user) /\ Suspend
    \/ \E user \in Admins : CanSuspend /\ BanUser(user, << <<"2">> >>) /\ Suspend
    \/ \E user \in Admins, args \in BroadcastArgs :
          CanSuspend /\ BroadcastBegin(user, args)
    \/ \E t \in tasks : Resume(t)
    \/ \E t \in tasks : BroadcastResume(t)

SpecAsync == Init /\ [][NextAsync]_vars

----------------------------------------------------------------------------
(* /gencode draw by draw.  The handler has no await before its save: while *)
(* it draws, no other handler runs.                                        *)

\* "if code not in bot_instance.codes: break", negated: draw again
is_taken(cs, code) == code \in DOMAIN cs

\* no handler is running or suspended
Idle == tasks = {}

\* /gencode up to its loops: an early return, or the start of range(num)
GenBegin(user, num, args) ==
    /\ ~hung
    /\ Idle
    /\ LET outcome == gencode_outcome(user, num, args) IN
       IF outcome # "Generated"
       THEN Answer("gencode", user, args, outcome, None) /\ Sequential
       ELSE /\ tasks' = { [ op |-> "gencode", caller |-> user.id, arg |-> args,
                            outcome |-> outcome, pc |-> "loop",
                            left |-> num.n, generated |-> <<>> ] }
            /\ reply' = Result("gencode", user, args, "Generating", None)
            /\ UNCHANGED <<codes, users, banned_users, disk, now, faulty, lossy, failures,
                           hung>>

\* One pass of "while True": random.choices draws the suffix x; a key that
\* is taken is drawn again, a free one is added to codes and ends this
\* round of range(num).
Draw(t, x) ==
    /\ t.op = "gencode"
    /\ t.left > 0
    /\ LET code == Upper(t.arg[2]) \o x IN
       IF is_taken(codes, code)
       THEN UNCHANGED <<codes, tasks>>
       ELSE /\ codes' = Put(codes, code, NewCode(now))
            /\ tasks' = { [t EXCEPT !.left = @ - 1, !.generated = Append(@, code)] }
    /\ UNCHANGED <<users, banned_users, disk, now, faulty, lossy, failures, hung, reply>>

\* range(num) is exhausted: the codes are saved and listed in the reply
GenEnd(t) ==
    /\ t.op = "gencode"
    /\ t.left <= 0
    /\ \E o \in SaveOutcomes :
         /\ Budget(<<o>>)
         /\ disk' = save_data(disk, "codes", codes, o)
         /\ failures' = failures + Failed(o)
    /\ tasks' = {}
    /\ reply' = Result("gencode", [id |-> t.caller], t.arg, "Generated", t.generated)
    /\ UNCHANGED <<codes, users, banned_users, now, faulty, lossy, hung>>

\* SpecDraw: /gencode draw by draw from a source of two suffixes, between
\* /addcode, /delcode and /redeem of keys with its prefix
DrawNums == { x \in NumArgs : x.valid /\ x.n \in {-1, 1, 2, 51} }
DrawCodes == { <<"g", "0">>, <<"g", "1">> }

NextDraw ==
    \/ \E user \in Admins, c \in DrawCodes : Idle /\ AddCode(user, <<c>>) /\ Sequential
    \/ \E user \in Admins, c \in DrawCodes : Idle /\ DelCode(user, <<c>>) /\ Sequential
    \/ \E user \in Identities, c \in DrawCodes : Idle /\ Redeem(user, <<c>>) /\ Sequential
    \/ \E user \in Admins, num \in DrawNums, p \in PrefixArgs : GenBegin(user, num, <<num, p>>)
    \/ \E t \in tasks, x \in MoreSuffixes : Draw(t, x)
    \/ \E t \in tasks : GenEnd(t)

\* random.choices is fair: a suffix that can be drawn again and again is
\* drawn; and a handler that can go on does
FairDraws ==
    /\ \A x \in MoreSuffixes : WF_vars(\E t \in tasks : Draw(t, x))
    /\ WF_vars(\E t \in tasks : GenEnd(t))

SpecDraw == Init /\ [][NextDraw]_vars /\ FairDraws

----------------------------------------------------------------------------
\* SpecGuard: every admin command sent by anybody, the admin or not, with
\* arguments that the admin's call would act on
GuardBans == { <<"1">>, <<"2">> }
GuardNums == { x \in NumArgs : x.valid /\ x.n = 1 }

NextGuard ==
    \/ Play(OneCode)
    \/ \E user \in Identities : Stats(user) /\ Sequential
    \/ \E user \in Identities : ListCodes(user) /\ Sequential
    \/ \E user \in Identities, c \in OneCode : AddCode(user, <<c>>) /\ Sequential
    \/ \E user \in Identities, c \in OneCode, p \in PrizeArgs :
          AddPrize(user, <<c, p>>) /\ Sequential
    \/ \E user \in Identities, c \in OneCode : DelCode(user, <<c>>) /\ Sequential
    \/ \E user \in Identities, num \in GuardNums, p \in PrefixArgs :
          GenCode(user, num, <<num, p>>, Suffixes) /\ Sequential
    \/ \E user \in Identities, args \in BroadcastArgs : Broadcast(user, args) /\ Sequential
    \/ \E user \in Identities, b \in GuardBans : BanUser(user, <<b>>) /\ Sequential
    \/ \E user \in Identities, b \in GuardBans : UnbanUser(user, <<b>>) /\ Sequential
    \/ \E user \in Identities : ResetGiveaway(user) /\ Sequential
    \/ \E user \in Identities : StopBot(user) /\ Sequential
    \/ Restart

SpecGuard == Init /\ [][NextGuard]_vars

----------------------------------------------------------------------------
(* Vocabulary of the properties *)

AllCodeArgs == CaseArgs \cup CodeArgs

\* user u holds a redemption record for code key k
HasRecord(u, k) ==
    /\ u \in DOMAIN users
    /\ \E i \in DOMAIN users[u].redeemed_codes : users[u].redeemed_codes[i].code = k

IsRedeemed(k) == k \in DOMAIN codes /\ codes[k].redeemed

\* The step is the handler named, called by user with args.  Each handler
\* writes its name, caller and arguments to reply, which is tested first.
By(op, user, args) ==
    reply'.op = op /\ reply'.caller = user.id /\ reply'.arg = args

RedeemStep(user, args) == By("redeem", user, args) /\ Redeem(user, args)
StartStep(user) == By("start", user, <<>>) /\ Start(user)
BanStep(user, args) == By("ban", user, args) /\ BanUser(user, args)
AddCodeStep(user, args) == By("addcode", user, args) /\ AddCode(user, args)
AddPrizeStep(user, args) == By("addprize", user, args) /\ AddPrize(user, args)
DelCodeStep(user, args) == By("delcode", user, args) /\ DelCode(user, args)
ResetStep ==
    \E user \in Identities : By("resetgiveaway", user, <<>>) /\ ResetGiveaway(user)
DelStep(k) ==
    \E user \in Identities, c \in AllCodeArgs : Upper(c) = k /\ DelCodeStep(user, <<c>>)

----------------------------------------------------------------------------
(* C1 *)

\* C1 as stated, read for non-banned users: when some user holds a record
\* of code C (C was redeemed and no resetGiveaway happened since), a redeem
\* of C fails AlreadyRedeemed.
C1_SecondRedeemFails ==
    [][\A user \in Identities, c \in AllCodeArgs :
        ( /\ RedeemStep(user, <<c>>)
          /\ ~is_banned(user.id)
          /\ \E u \in DOMAIN users : HasRecord(u, Upper(c)) )
        => reply'.outcome = "AlreadyRedeemed"]_vars

\* C1 amended: a code that is redeemed stays redeemed with the same
\* Redeemer snapshot over every step that is neither resetGiveaway nor a
\* deleteCode of it, and a redeem of a redeemed code by a non-banned user
\* fails AlreadyRedeemed, reports that snapshot, and leaves the codes and
\* every user's redemption sequence unchanged.
C1_RedeemedStaysRedeemed ==
    [][ /\ \A k \in DOMAIN codes :
             (codes[k].redeemed /\ ~ResetStep /\ ~DelStep(k))
             => IsRedeemed(k)' /\ codes'[k].redeemer = codes[k].redeemer
        /\ \A user \in Identities, c \in AllCodeArgs :
             (RedeemStep(user, <<c>>) /\ ~is_banned(user.id) /\ IsRedeemed(Upper(c)))
             => /\ reply'.outcome = "AlreadyRedeemed"
                /\ reply'.info = codes[Upper(c)].redeemer
                /\ codes' = codes
                /\ \A u \in DOMAIN users :
                      users'[u].redeemed_codes = users[u].redeemed_codes
      ]_vars

\* a later redeem by another user was refused with the first user's snapshot
C1_Witness ==
    /\ reply.op = "redeem"
    /\ reply.outcome = "AlreadyRedeemed"
    /\ IsRedeemed(Upper(reply.arg[1]))
    /\ reply.info = codes[Upper(reply.arg[1])].redeemer
    /\ reply.info.user_id # Str(reply.caller)
    /\ reply.info.date # StrfTime(now)

----------------------------------------------------------------------------
(* C2 *)

\* C2: for every user U the number of RedemptionRecords of U equals the
\* number of Codes whose redeemer.user_id is U, and each record's code is a
\* Code whose redeemer is U.
C2_RecordsMatchCodes ==
    \A u \in UserIdStrs :
        LET mine == { k \in DOMAIN codes : codes[k].redeemed /\ codes[k].redeemer.user_id = u }
            recs == IF u \in DOMAIN users THEN users[u].redeemed_codes ELSE <<>>
        IN  /\ Len(recs) = Cardinality(mine)
            /\ \A i \in DOMAIN recs : recs[i].code \in mine

----------------------------------------------------------------------------
(* C3 *)

\* C3: every Code has redeemed = TRUE exactly when its redeemer is a
\* Redeemer snapshot (not None).
C3_FlagIffRedeemer ==
    \A k \in DOMAIN codes : codes[k].redeemed <=> (codes[k].redeemer # None)

\* one code redeemed with its snapshot, another one created and untouched
C3_Witness ==
    /\ \E k \in DOMAIN codes : codes[k].redeemed /\ codes[k].redeemer # None
    /\ \E k \in DOMAIN codes : ~codes[k].redeemed /\ codes[k].redeemer = None
    /\ reply.op = "redeem" /\ reply.outcome = "Success"

----------------------------------------------------------------------------
(* C4 *)

\* C4 as stated: while no resetGiveaway happens (a user's record of the code
\* is still there), no other user redeems that code successfully.
C4_NoOtherRedeemer ==
    [][\A user \in Identities, c \in AllCodeArgs :
        ( /\ RedeemStep(user, <<c>>)
          /\ \E u \in DOMAIN users : u # Str(user.id) /\ HasRecord(u, Upper(c)) )
        => reply'.outcome # "Success"]_vars

\* C4 amended: over every step that is neither resetGiveaway nor a
\* deleteCode of that key, a redeemed code keeps its Redeemer snapshot (it is
\* neither changed nor cleared), and no redeem of it succeeds.
C4_SnapshotImmutable ==
    [][\A k \in DOMAIN codes :
        (codes[k].redeemed /\ ~ResetStep /\ ~DelStep(k))
        => /\ k \in DOMAIN codes'
           /\ codes'[k].redeemed
           /\ codes'[k].redeemer = codes[k].redeemer
           /\ \A user \in Identities, c \in AllCodeArgs :
                (Upper(c) = k /\ RedeemStep(user, <<c>>)) => reply'.outcome # "Success"
      ]_vars

\* a redeemed code survived a later addCode of its key
C4_Witness ==
    /\ reply.op = "addcode"
    /\ reply.outcome = "DuplicateCode"
    /\ IsRedeemed(Upper(reply.arg[1]))
    /\ codes[Upper(reply.arg[1])].redeemer.date # StrfTime(now)

----------------------------------------------------------------------------
(* C5 *)

\* C5: every key of codes is uppercase, and redeem, addCode, setPrize and
\* deleteCode act on the uppercased argument: with upper(r) = K a key, redeem
\* of r answers for K (never InvalidCode), addCode of r is a duplicate,
\* setPrize of r sets K's prize and deleteCode of r removes K.
C5_KeysUppercase ==
    /\ [](\A k \in DOMAIN codes : Upper(k) = k /\ IsUpper(k))
    /\ [][\A user \in Identities, r \in AllCodeArgs :
            Upper(r) \in DOMAIN codes =>
              /\ (RedeemStep(user, <<r>>) /\ ~is_banned(user.id))
                   => /\ reply'.outcome \in {"Success", "AlreadyRedeemed"}
                      /\ codes'[Upper(r)].redeemed
                      /\ reply'.outcome = "Success"
                           => /\ reply'.info = codes[Upper(r)].prize
                              /\ codes'[Upper(r)].redeemer.user_id = Str(user.id)
              /\ (AddCodeStep(user, <<r>>) /\ is_admin(user.id))
                   => reply'.outcome = "DuplicateCode" /\ codes' = codes
              /\ \A p \in PrizeArgs :
                   (AddPrizeStep(user, <<r, p>>) /\ is_admin(user.id))
                   => /\ reply'.outcome = "PrizeSet"
                      /\ codes' = [codes EXCEPT ![Upper(r)].prize = p]
              /\ (DelCodeStep(user, <<r>>) /\ is_admin(user.id))
                   => /\ reply'.outcome = "Deleted"
                      /\ DOMAIN codes' = DOMAIN codes \ {Upper(r)}
        ]_vars

\* code A with prize "iPhone 15" was redeemed as "a" by user 2
C5_Witness ==
    /\ reply.op = "redeem"
    /\ reply.arg = << <<"a">> >>
    /\ reply.caller = 2
    /\ reply.outcome = "Success"
    /\ reply.info = "iPhone 15"
    /\ codes[<<"A">>].redeemer.user_id = <<"2">>
    /\ <<"a">> \notin DOMAIN codes

----------------------------------------------------------------------------
(* C6 *)

\* C6: a redeem by a banned user answers Banned and changes neither users
\* (the caller is not registered), codes, banned_users nor the files.
C6_BannedRedeemRejected ==
    [][\A user \in Identities, args \in {<<>>} \cup { <<c>> : c \in AllCodeArgs } :
        (is_banned(user.id) /\ RedeemStep(user, args))
        => /\ reply'.outcome = "Banned"
           /\ UNCHANGED <<users, codes, banned_users, disk>>]_vars

\* a banned, unregistered user asked for a code that exists and is unredeemed
C6_Witness ==
    /\ reply.op = "redeem"
    /\ reply.outcome = "Banned"
    /\ reply.arg # <<>>
    /\ Upper(reply.arg[1]) \in DOMAIN codes
    /\ ~codes[Upper(reply.arg[1])].redeemed
    /\ Str(reply.caller) \notin DOMAIN users
    /\ is_banned(reply.caller)

----------------------------------------------------------------------------
(* C7 *)

\* C7: after a redeem attempt by a non-banned user, whatever its outcome,
\* the user has a User record; a successful redemption appends its record
\* to that user's sequence (empty when the user was not registered before).
C7_RedeemRegisters ==
    [][\A user \in Identities, args \in {<<>>} \cup { <<c>> : c \in AllCodeArgs } :
        (~is_banned(user.id) /\ RedeemStep(user, args))
        => /\ reply'.outcome \in {"Success", "InvalidCode", "AlreadyRedeemed", "Usage"}
           /\ Str(user.id) \in DOMAIN users'
           /\ reply'.outcome = "Success"
                => LET before == IF Str(user.id) \in DOMAIN users
                                 THEN users[Str(user.id)].redeemed_codes ELSE <<>>
                       after == users'[Str(user.id)].redeemed_codes
                   IN  /\ Len(after) = Len(before) + 1
                       /\ SubSeq(after, 1, Len(before)) = before
                       /\ after[Len(after)].code = Upper(args[1])
      ]_vars

\* a user who joined at the very moment of the redemption holds its record
C7_Witness ==
    /\ reply.op = "redeem"
    /\ reply.outcome = "Success"
    /\ now > 0
    /\ users[Str(reply.caller)].join_date = IsoFormat(now)
    /\ Len(users[Str(reply.caller)].redeemed_codes) = 1
    /\ users[Str(reply.caller)].redeemed_codes[1].date = StrfTime(now)

----------------------------------------------------------------------------
(* C8 *)

\* C8: resetGiveaway leaves every Code unredeemed without redeemer and every
\* User with an empty redemption sequence, keeping the code keys, prizes and
\* creation dates and the users' identities; an unredeemed code is redeemed
\* successfully by a non-banned user, after which it is redeemed, so that
\* the next attempt fails AlreadyRedeemed.
C8_ResetClears ==
    [][ /\ ResetStep =>
             /\ DOMAIN codes' = DOMAIN codes
             /\ \A k \in DOMAIN codes :
                  codes'[k] = [codes[k] EXCEPT !.redeemed = FALSE, !.redeemer = None]
             /\ DOMAIN users' = DOMAIN users
             /\ \A u \in DOMAIN users :
                  users'[u] = [users[u] EXCEPT !.redeemed_codes = <<>>]
        /\ \A user \in Identities, c \in AllCodeArgs :
             (RedeemStep(user, <<c>>) /\ ~is_banned(user.id) /\ Upper(c) \in DOMAIN codes)
             => IF codes[Upper(c)].redeemed
                THEN reply'.outcome = "AlreadyRedeemed" /\ codes' = codes
                ELSE /\ reply'.outcome = "Success"
                     /\ codes'[Upper(c)].redeemed
                     /\ codes'[Upper(c)].redeemer.user_id = Str(user.id)
      ]_vars

\* right after a reset: the codes still carry a prize, the users are still
\* registered, and nothing is redeemed
C8_Witness ==
    /\ reply.op = "resetgiveaway"
    /\ reply.outcome = "Reset"
    /\ Cardinality(DOMAIN codes) = 2
    /\ \E k \in DOMAIN codes : codes[k].prize # NO_PRIZE
    /\ Cardinality(DOMAIN users) = 2
    /\ \A k \in DOMAIN codes : ~codes[k].redeemed
    /\ \A u \in DOMAIN users : users[u].redeemed_codes = <<>>

----------------------------------------------------------------------------
(* C9 *)

\* the steps that call register_user(user)
RegisterStep(user) ==
    \/ StartStep(user)
    \/ \E args \in {<<>>} \cup { <<c>> : c \in AllCodeArgs } : RedeemStep(user, args)

\* C9: register_user for an id already in users keeps that User's join
\* date, names and history (a start changes nothing at all and saves
\* nothing; a redeem can only append to the history); for an absent id it
\* inserts a User with the caller's names, the current date and an empty
\* history, and the users file then holds the users document.
C9_RegisterIdempotent ==
    [][\A user \in Identities :
        (~is_banned(user.id) /\ RegisterStep(user))
        => LET u == Str(user.id) IN
           IF u \in DOMAIN users
           THEN /\ u \in DOMAIN users'
                /\ users'[u].join_date = users[u].join_date
                /\ users'[u].username = users[u].username
                /\ users'[u].first_name = users[u].first_name
                /\ users'[u].last_name = users[u].last_name
                /\ reply'.outcome # "Success"
                     => users' = users /\ disk' = disk
           ELSE /\ DOMAIN users' = DOMAIN users \cup {u}
                /\ \A v \in DOMAIN users : users'[v] = users[v]
                /\ users'[u].join_date = IsoFormat(now)
                /\ users'[u].first_name = OrNA(user.first_name)
                /\ reply'.outcome # "Success"
                     => users'[u].redeemed_codes = <<>>
                /\ disk'["users"] = Stored(users')
      ]_vars

\* a second /start of a user who joined earlier and has redeemed since
C9_Witness ==
    /\ reply.op = "start"
    /\ reply.outcome = "Welcome"
    /\ Str(reply.caller) \in DOMAIN users
    /\ users[Str(reply.caller)].join_date # IsoFormat(now)
    /\ users[Str(reply.caller)].redeemed_codes # <<>>
    /\ disk["users"] = Stored(users)

----------------------------------------------------------------------------
(* C10 *)

\* C10: the admin id is never in banned_users nor in the banned file, and
\* /ban of the admin id answers CannotBanSelf and changes neither.
C10_AdminNeverBanned ==
    /\ [](/\ ADMIN_ID \notin Elems(banned_users)
          /\ ADMIN_ID \notin Elems(load_data(disk, "banned", <<>>)))
    /\ [][\A user \in Admins :
            BanStep(user, <<ADMIN_ID>>)
            => reply'.outcome = "CannotBanSelf" /\ UNCHANGED <<banned_users, disk>>
        ]_vars

\* the admin tried to ban the admin id while other ids were banned
C10_Witness ==
    /\ reply.op = "ban"
    /\ reply.arg = <<ADMIN_ID>>
    /\ reply.outcome = "CannotBanSelf"
    /\ Len(banned_users) = 2
    /\ disk["banned"] = Stored(banned_users)

----------------------------------------------------------------------------
(* C11 *)

GenStep(user, num, args, S) == By("gencode", user, args) /\ GenCode(user, num, args, S)

\* s starts with p
StartsWith(s, p) == Len(s) >= Len(p) /\ SubSeq(s, 1, Len(p)) = p

\* C11: a /gencode n prefix that is accepted (by the admin, n an integer
\* not above 50) and returns has generated exactly n keys, pairwise
\* distinct, none a key of codes before, each starting with the (uppercased)
\* prefix and each now an unredeemed code with the sentinel prize, while the
\* codes that existed are unchanged; with n > 50 it answers LimitExceeded
\* and the codes are unchanged.
C11_GenerateExact ==
    [][\A user \in Admins, num \in NumArgs, p \in GenPrefixes :
        (GenStep(user, num, <<num, p>>, MoreSuffixes) /\ num.valid /\ ~hung')
        => IF num.n > GEN_LIMIT
           THEN reply'.outcome = "LimitExceeded" /\ codes' = codes
           ELSE LET ks == reply'.info IN
                /\ reply'.outcome = "Generated"
                /\ Len(ks) = num.n
                /\ \A i, j \in DOMAIN ks : i # j => ks[i] # ks[j]
                /\ \A i \in DOMAIN ks :
                     /\ ks[i] \notin DOMAIN codes
                     /\ StartsWith(ks[i], Upper(p))
                     /\ ks[i] \in DOMAIN codes'
                     /\ ~codes'[ks[i]].redeemed
                     /\ codes'[ks[i]].redeemer = None
                     /\ codes'[ks[i]].prize = NO_PRIZE
                /\ DOMAIN codes' = DOMAIN codes \cup Elems(ks)
                /\ \A k \in DOMAIN codes : codes'[k] = codes[k]
      ]_vars

----------------------------------------------------------------------------
(* C12 *)

\* C12: /stats by the admin completes normally; it reports the rate 0 when
\* there are no codes and redeemed/total*100 otherwise.
C12_StatsRate ==
    (reply.op = "stats" /\ is_admin(reply.caller))
    => /\ ~reply.raised
       /\ reply.outcome = "Stats"
       /\ LET total == Cardinality(DOMAIN codes)
              redeemed == Cardinality({ c \in DOMAIN codes : codes[c].redeemed })
          IN  reply.info.rate = IF total = 0 THEN [tenths |-> 0]
                                ELSE Format1f(redeemed, total)

----------------------------------------------------------------------------
(* C13 *)

RestartStep == reply'.op = "restart" /\ Restart

\* the three documents a new process would load are those in memory
LoadsSame ==
    /\ load_data(disk, "codes", <<>>) = codes
    /\ load_data(disk, "users", <<>>) = users
    /\ load_data(disk, "banned", <<>>) = banned_users

\* C13: with no failing save, whenever a handler has returned the files
\* hold the documents in memory: a document a handler changed is in its
\* file when the handler answers, and a restart loads the state the
\* process had.
C13_PersistedAtBoundary ==
    /\ [](~hung => LoadsSame)
    /\ [][ /\ (~hung /\ ~hung' /\ codes' # codes) => disk'["codes"] = Stored(codes')
           /\ (~hung /\ ~hung' /\ users' # users) => disk'["users"] = Stored(users')
           /\ (~hung /\ ~hung' /\ banned_users' # banned_users)
                 => disk'["banned"] = Stored(banned_users')
           /\ (RestartStep /\ ~hung) => UNCHANGED <<codes, users, banned_users>>
         ]_vars

\* a restart after a redemption of a code with a prize and a ban
C13_Witness ==
    /\ reply.op = "restart"
    /\ \E k \in DOMAIN codes : codes[k].redeemed /\ codes[k].prize # NO_PRIZE
    /\ \E u \in DOMAIN users : users[u].redeemed_codes # <<>>
    /\ banned_users # <<>>

----------------------------------------------------------------------------
(* C14 *)

UnbanStep(user, args) == By("unban", user, args) /\ UnbanUser(user, args)

\* the document of a file, in memory
Mem(f) == CASE f = "codes" -> codes [] f = "users" -> users [] f = "banned" -> banned_users

\* C14: a step in which a save failed still ends normally with the
\* handler's usual answer and its change of the documents in memory; a
\* redeemed code is refused as AlreadyRedeemed whatever the files hold; and
\* a save that succeeds leaves in the file the whole document in memory.
C14_FailedSaveSwallowed ==
    [][ /\ (failures' > failures) =>
             /\ ~reply'.raised
             /\ \A user \in Identities :
                  /\ StartStep(user) =>
                        reply'.outcome = "Welcome" /\ Str(user.id) \in DOMAIN users'
                  /\ \A c \in AllCodeArgs :
                        /\ RedeemStep(user, <<c>>) =>
                             /\ Str(user.id) \in DOMAIN users'
                             /\ (Upper(c) \in DOMAIN codes /\ ~codes[Upper(c)].redeemed)
                                  => /\ reply'.outcome = "Success"
                                     /\ codes'[Upper(c)].redeemed
                                     /\ codes'[Upper(c)].redeemer.user_id = Str(user.id)
                                     /\ HasRecord(Str(user.id), Upper(c))'
                        /\ AddCodeStep(user, <<c>>) =>
                             reply'.outcome = "Added" /\ Upper(c) \in DOMAIN codes'
                        /\ DelCodeStep(user, <<c>>) =>
                             reply'.outcome = "Deleted" /\ Upper(c) \notin DOMAIN codes'
                  /\ \A b \in BanArgs :
                        /\ BanStep(user, <<b>>) =>
                             reply'.outcome = "Banned" /\ b \in Elems(banned_users')
                        /\ UnbanStep(user, <<b>>) =>
                             reply'.outcome = "Unbanned" /\ b \notin Elems(banned_users')
             /\ ResetStep =>
                  /\ reply'.outcome = "Reset"
                  /\ \A k \in DOMAIN codes' : ~codes'[k].redeemed
                  /\ \A u \in DOMAIN users' : users'[u].redeemed_codes = <<>>
        /\ \A user \in Identities, c \in AllCodeArgs :
             (RedeemStep(user, <<c>>) /\ ~is_banned(user.id) /\ IsRedeemed(Upper(c)))
             => reply'.outcome = "AlreadyRedeemed" /\ codes' = codes
        /\ ~RestartStep =>
             \A f \in FileNames :
                /\ (disk'[f] # disk[f] /\ disk'[f].state = "ok")
                     => \/ disk'[f] = Stored(Mem(f)')
                        \* redeem: the registration was saved, the record was not
                        \/ /\ failures' > failures
                           /\ f = "users"
                           /\ \E user \in Identities :
                                disk'[f] = Stored(register_user(users, user, now))
                /\ (failures' = failures /\ ~hung' /\ Mem(f)' # Mem(f))
                     => disk'[f] = Stored(Mem(f)')
      ]_vars

\* a save has failed, the codes file does not hold the redemption, and a
\* second redeem of the code was refused
C14_Witness ==
    /\ failures > 0
    /\ reply.op = "redeem"
    /\ reply.outcome = "AlreadyRedeemed"
    /\ load_data(disk, "codes", <<>>) # codes
    /\ load_data(disk, "users", <<>>) = users

----------------------------------------------------------------------------
(* C15 *)

\* C15: in the documents a restarted process would load, a code is marked
\* redeemed by user U exactly when U's user record holds a redemption
\* record for that code.
C15_FilesConsistent ==
    LET cs == load_data(disk, "codes", <<>>)
        us == load_data(disk, "users", <<>>)
    IN  /\ \A k \in DOMAIN cs :
             cs[k].redeemed =>
               /\ cs[k].redeemer.user_id \in DOMAIN us
               /\ \E i \in DOMAIN us[cs[k].redeemer.user_id].redeemed_codes :
                    us[cs[k].redeemer.user_id].redeemed_codes[i].code = k
        /\ \A u \in DOMAIN us :
             \A i \in DOMAIN us[u].redeemed_codes :
               LET k == us[u].redeemed_codes[i].code
               IN  k \in DOMAIN cs /\ cs[k].redeemed /\ cs[k].redeemer.user_id = u

----------------------------------------------------------------------------
(* C16 *)

\* C16: a start never fails; each document is loaded on its own, as the
\* default (empty) when its file is missing or cannot be read and as the
\* stored document otherwise; and what a successful save of a document has
\* written is loaded back as that document, whatever the other files hold.
C16_LoadNeverFails ==
    /\ [](\A f \in FileNames :
            /\ load_data(save_data(disk, f, Mem(f), "ok"), f, <<>>) = Mem(f)
            /\ \A g \in FileNames \ {f}, o \in SaveOutcomes :
                  load_data(save_data(disk, g, Mem(g), o), f, <<>>)
                    = load_data(disk, f, <<>>))
    /\ [][RestartStep =>
            /\ ~reply'.raised
            /\ reply'.outcome = "Started"
            /\ \A f \in FileNames :
                  Mem(f)' = IF disk[f].state = "ok" THEN disk[f].data ELSE <<>>
        ]_vars

\* a start with one file unreadable, one missing and one holding users
C16_Witness ==
    /\ reply.op = "restart"
    /\ \E f \in FileNames : disk[f].state = "corrupt" /\ Mem(f) = <<>>
    /\ \E f \in FileNames : disk[f].state = "missing" /\ Mem(f) = <<>>
    /\ \E f \in FileNames : disk[f].state = "ok" /\ Mem(f) # <<>> /\ Mem(f) = disk[f].data

----------------------------------------------------------------------------
(* C17 *)

\* C17: when the notification of the admin fails after a successful
\* redemption, the handler returns normally and the redemption stands: the
\* code is redeemed with the redeemer's snapshot and the user holds the
\* record, in memory and in the files.
C17_NotifyFailureKeepsRedemption ==
    [][\A user \in Identities, c \in AllCodeArgs :
        ( /\ RedeemStep(user, <<c>>)
          /\ reply'.outcome = "Success"
          /\ reply'.notified # <<>>
          /\ ~reply'.notified[1].ok )
        => /\ ~reply'.raised
           /\ codes' = redeem_codes(codes, Upper(c), user, now)
           /\ codes'[Upper(c)].redeemed
           /\ codes'[Upper(c)].redeemer = Redeemer(user, now)
           /\ HasRecord(Str(user.id), Upper(c))'
           /\ disk'["codes"] = Stored(codes')
           /\ disk'["users"] = Stored(users')
      ]_vars

\* a redemption whose notification failed, loaded again after a restart
C17_Witness ==
    /\ reply.op = "redeem"
    /\ reply.outcome = "Success"
    /\ reply.notified # <<>>
    /\ ~reply.notified[1].ok
    /\ IsRedeemed(Upper(reply.arg[1]))
    /\ HasRecord(Str(reply.caller), Upper(reply.arg[1]))
    /\ LoadsSame

----------------------------------------------------------------------------
(* C18 *)

\* C18: a successful redeem makes exactly one attempt to notify the admin,
\* carrying the user, the code and the prize, whether or not the reply to
\* the user could be delivered; a redeem with another outcome makes none.
C18_OneNotification ==
    reply.op = "redeem" =>
       IF reply.outcome = "Success"
       THEN /\ Len(reply.notified) = 1
            /\ reply.notified[1].chat = ADMIN_ID
            /\ reply.notified[1].user = reply.caller
            /\ reply.notified[1].code = Upper(reply.arg[1])
            /\ reply.notified[1].prize = reply.info
       ELSE reply.notified = <<>>

----------------------------------------------------------------------------
(* C19 *)

\* C19: a /broadcast by the admin attempts one send to every registered
\* user who is not banned and none to anybody else; when it completes, sent
\* + failed is the number of those users.  (Broadcast leaves users, codes
\* and banned_users as they are, so the state after it tells who they were.)
C19_BroadcastReachesAll ==
    (reply.op = "broadcast" /\ reply.outcome = "Broadcast")
    => LET recipients == { u \in DOMAIN users : u \notin Elems(banned_users) }
           attempts == reply.info.attempts
       IN  /\ \A u \in recipients :
                Cardinality({ i \in DOMAIN attempts : attempts[i].chat = u }) = 1
           /\ \A i \in DOMAIN attempts : attempts[i].chat \in recipients
           /\ ~reply.raised => reply.info.sent + reply.info.failed = Cardinality(recipients)

----------------------------------------------------------------------------
(* C20 *)

\* C20: an admin code command that fails changes nothing: /addcode of an
\* existing key answers DuplicateCode and leaves that code as it is, and
\* /addprize and /delcode of an absent key answer UnknownCode, with users,
\* codes, banned_users and the files unchanged; /delcode of a present key
\* removes it, redeemed or not, and a redeem of an absent key answers
\* InvalidCode.
C20_FailedAdminOpsChangeNothing ==
    [][\A user \in Admins, c \in AllCodeArgs :
        LET k == Upper(c) IN
        /\ (AddCodeStep(user, <<c>>) /\ k \in DOMAIN codes)
             => /\ reply'.outcome = "DuplicateCode"
                /\ UNCHANGED <<users, codes, banned_users, disk>>
        /\ \A p \in PrizeArgs :
             (AddPrizeStep(user, <<c, p>>) /\ k \notin DOMAIN codes)
             => /\ reply'.outcome = "UnknownCode"
                /\ UNCHANGED <<users, codes, banned_users, disk>>
        /\ DelCodeStep(user, <<c>>)
             => IF k \notin DOMAIN codes
                THEN /\ reply'.outcome = "UnknownCode"
                     /\ UNCHANGED <<users, codes, banned_users, disk>>
                ELSE /\ reply'.outcome = "Deleted"
                     /\ DOMAIN codes' = DOMAIN codes \ {k}
                     /\ \A x \in DOMAIN codes' : codes'[x] = codes[x]
        /\ \A redeemer \in Identities :
             ( /\ RedeemStep(redeemer, <<c>>)
               /\ ~is_banned(redeemer.id)
               /\ k \notin DOMAIN codes )
             => reply'.outcome = "InvalidCode" /\ codes' = codes
      ]_vars

\* an /addcode of a key that is redeemed and has a prize was refused
C20_Witness ==
    /\ reply.op = "addcode"
    /\ reply.outcome = "DuplicateCode"
    /\ IsRedeemed(Upper(reply.arg[1]))
    /\ codes[Upper(reply.arg[1])].prize # NO_PRIZE
    /\ banned_users # <<>>

----------------------------------------------------------------------------
(* C21 *)

----------------------------------------------------------------------------
(* C22 *)

\* a /gencode is in its loops
Generating == \E t \in tasks : t.op = "gencode"

\* C22 as stated: with fair draws, every /gencode that has started its
\* loops returns, whatever codes exist.
C22_GenCodeReturns == Generating ~> ~Generating

\* C22 amended: with fair draws, a /gencode that has started its loops with
\* at least as many free keys under its prefix as it still has to generate
\* returns.
C22_GenCodeReturnsIfRoom ==
    (\E t \in tasks :
        /\ t.op = "gencode"
        /\ t.left <= Cardinality(FreshKeys(codes, t.arg[2], MoreSuffixes)))
    ~> ~Generating

\* a /gencode has returned with the one key that was free, after drawing
\* past the key that was taken
C22_Witness ==
    /\ reply.op = "gencode"
    /\ reply.outcome = "Generated"
    /\ ~Generating
    /\ reply.info = << <<"G", "1">> >>
    /\ <<"G", "0">> \in DOMAIN codes
    /\ codes[<<"G", "0">>].redeemed

----------------------------------------------------------------------------
(* C23 *)

\* the commands that are for the admin only
AdminOps ==
    { "stats", "listcodes", "addcode", "addprize", "delcode", "gencode", "broadcast",
      "ban", "unban", "resetgiveaway", "stopbot" }

\* C23: an admin command called by a user whose id is not ADMIN_ID answers
\* AdminOnly and does nothing else: users (so the caller is not registered),
\* codes, banned_users and the files are unchanged, no message is sent to
\* anybody but the caller, and the bot goes on running.
C23_NonAdminRejected ==
    [][ ( /\ reply'.op \in AdminOps
          /\ Str(reply'.caller) # ADMIN_ID )
        => /\ reply'.outcome = "AdminOnly"
           /\ reply'.info = None
           /\ reply'.notified = <<>>
           /\ ~reply'.raised
           /\ UNCHANGED <<users, codes, banned_users, disk, hung>>
      ]_vars

\* a /resetgiveaway by a user who is not the admin, not registered and not
\* banned was refused while a code is redeemed and saved
C23_Witness ==
    /\ reply.op = "resetgiveaway"
    /\ Str(reply.caller) # ADMIN_ID
    /\ reply.outcome = "AdminOnly"
    /\ Str(reply.caller) \notin DOMAIN users
    /\ ~is_banned(reply.caller)
    /\ \E k \in DOMAIN codes : codes[k].redeemed
    /\ disk["codes"] = Stored(codes)
    /\ ~hung

====
